---- MODULE Spec2Model ----
(***************************************************************************)
(* Model of the wbor-postgres message-to-row pipeline: the primary         *)
(* consumer of src/app.py (consume_messages / callback), the dead-letter   *)
(* consumer (retry_dead_messages / retry_callback), the broker topology    *)
(* they declare, and the insert helpers of src/database.py.                *)
(***************************************************************************)
EXTENDS Integers, Sequences, FiniteSets, TLC

\* ------------------------------------------------------------------ bounds
MaxMsgs == 2        \* messages published by producers
MaxFaults == 1      \* failures of the store or of a broker connection
MaxCols == 2        \* columns of a projection handed to build_insert_query
MaxVals == 2        \* values of a projection handed to build_insert_query

\* --------------------------------------------------------- configuration
POSTGRES_QUEUE == "postgres"
DL_EXCHANGE == "dead_letter_exchange"
DL_QUEUE == "dead_letter_queue"
DEFAULT_EXCHANGE == ""

\* ------------------------------------------------------- message bodies
\* A decoded JSON object is a total function on the keys the callback reads;
\* Absent marks a key the object does not hold.
Absent == "<absent>"
None == "<None>"

StaticKeys ==
    << "MessageSid", "AccountSid", "MessagingServiceSid", "From", "To",
       "Body", "NumSegments", "NumMedia", "ApiVersion" >>

LocTypes == << "FromCity", "FromState", "FromCountry", "FromZip" >>

MediaTypeKeys ==
    << "MediaContentType0", "MediaContentType1", "MediaContentType2",
       "MediaContentType3", "MediaContentType4", "MediaContentType5",
       "MediaContentType6", "MediaContentType7", "MediaContentType8",
       "MediaContentType9" >>

MediaUrlKeys ==
    << "MediaUrl0", "MediaUrl1", "MediaUrl2", "MediaUrl3", "MediaUrl4",
       "MediaUrl5", "MediaUrl6", "MediaUrl7", "MediaUrl8", "MediaUrl9" >>

Range(s) == { s[i] : i \in 1..Len(s) }

\* The body field that carries the message-type tag.
TypeKey == "type"

\* handlers.py, handle_twilio_sms: the keys it reads and the columns it names.
HandlerStaticKeys == StaticKeys \o << "SenderName", "wbor_message_id" >>

HandlerStaticColumns ==
    << "message_sid", "account_sid", "messagingservice_sid", "from_num",
       "to_num", "body", "num_segments", "num_media", "api_version",
       "sender_name", "wbor_message_id" >>

HandlerLocTypes == << "from_city", "from_state", "from_country", "from_zip" >>

HandlerMediaTypeColumns ==
    << "media_content_type_0", "media_content_type_1", "media_content_type_2",
       "media_content_type_3", "media_content_type_4", "media_content_type_5",
       "media_content_type_6", "media_content_type_7", "media_content_type_8",
       "media_content_type_9" >>

HandlerMediaUrlColumns ==
    << "media_url_0", "media_url_1", "media_url_2", "media_url_3",
       "media_url_4", "media_url_5", "media_url_6", "media_url_7",
       "media_url_8", "media_url_9" >>

\* handlers.py, handle_message_event: the keys it reads and its columns.
MessageEventKeys ==
    << "text", "bot_id", "statuscode", "type", "wbor_message_id",
       "picture_url", "source" >>

MessageEventColumns ==
    << "text", "bot_id", "code", "type", "wbor_message_id", "picture_url",
       "source" >>

AllKeys ==
    Range(StaticKeys) \cup Range(LocTypes) \cup Range(MediaTypeKeys)
        \cup Range(MediaUrlKeys) \cup { TypeKey }
        \cup Range(HandlerStaticKeys) \cup Range(HandlerLocTypes)
        \cup Range(MessageEventKeys)

\* The object whose keys are exactly S, each holding a non-empty string.
Obj(S) == [ k \in AllKeys |-> IF k \in S THEN "v" ELSE Absent ]

\* The same object, tagged with a message type.
Tagged(obj, tag) == [ obj EXCEPT ![TypeKey] = tag ]

\* dict.get(key): the value, or None for a missing key.
Get(message, key) == IF message[key] = Absent THEN None ELSE message[key]

\* Python truthiness of a value read from a decoded message.
Truthy(v) == v \notin { None, "" }

\* The byte strings producers put on the wire in this model.
Bodies == { "garbage", "json_list", "sms_plain", "sms_city_media", "evt_unknown" }

\* The byte strings parked directly in the dead-letter queue.
ParkedBodies == { "sms_plain" }

\* json.loads(body): raises JSONDecodeError, or yields the decoded value.
json_loads(body) ==
    CASE body = "garbage" ->
            [ ok |-> FALSE, isdict |-> FALSE, value |-> Obj({}) ]
      [] body = "json_list" ->
            [ ok |-> TRUE, isdict |-> FALSE, value |-> Obj({}) ]
      [] body = "sms_plain" ->
            [ ok |-> TRUE, isdict |-> TRUE,
              value |-> Tagged(Obj(Range(StaticKeys)), "twilio.sms.incoming") ]
      [] body = "sms_city_media" ->
            [ ok |-> TRUE, isdict |-> TRUE,
              value |-> Tagged(Obj(Range(StaticKeys)
                            \cup { "FromCity", "MediaContentType0", "MediaUrl0" }),
                               "twilio.sms.incoming") ]
      [] body = "evt_unknown" ->
            [ ok |-> TRUE, isdict |-> TRUE,
              value |-> Tagged(Obj({}), "demo.unknown") ]

\* ------------------------------------------------- callback's projection
\* for loc_type in [...]: append column and value when message.get is truthy.
RECURSIVE LocationLoop(_, _, _)
LocationLoop(message, i, acc) ==
    IF i > Len(LocTypes) THEN acc
    ELSE LET k == LocTypes[i] IN
         LocationLoop(message, i + 1,
            IF Truthy(Get(message, k))
            THEN [ columns |-> Append(acc.columns, k),
                   values |-> Append(acc.values, Get(message, k)) ]
            ELSE acc)

EmptyProjection == [ columns |-> << >>, values |-> << >> ]

\* MediaLoop with the two tests of one round in the other order.
RECURSIVE MediaLoop_UrlFirst(_, _, _)
MediaLoop_UrlFirst(message, i, acc) ==
    IF i > Len(MediaTypeKeys) THEN acc
    ELSE LET tk == MediaTypeKeys[i]
             uk == MediaUrlKeys[i]
             a1 == IF Truthy(Get(message, uk))
                   THEN [ columns |-> Append(acc.columns, uk),
                          values |-> Append(acc.values, Get(message, uk)) ]
                   ELSE acc
             a2 == IF Truthy(Get(message, tk))
                   THEN [ columns |-> Append(a1.columns, tk),
                          values |-> Append(a1.values, Get(message, tk)) ]
                   ELSE a1
         IN MediaLoop_UrlFirst(message, i + 1, a2)

\* for i in range(10): media type, then media url, each when truthy.
RECURSIVE MediaLoop(_, _, _)
MediaLoop(message, i, acc) ==
    IF i > Len(MediaTypeKeys) THEN acc
    ELSE LET tk == MediaTypeKeys[i]
             uk == MediaUrlKeys[i]
             a1 == IF Truthy(Get(message, tk))
                   THEN [ columns |-> Append(acc.columns, tk),
                          values |-> Append(acc.values, Get(message, tk)) ]
                   ELSE acc
             a2 == IF Truthy(Get(message, uk))
                   THEN [ columns |-> Append(a1.columns, uk),
                          values |-> Append(a1.values, Get(message, uk)) ]
                   ELSE a1
         IN MediaLoop(message, i + 1, a2)

\* Projection with the media values left out (a forgotten append).
Projection_MediaValuesDropped(message) ==
    LET loc == LocationLoop(message, 1, EmptyProjection)
        media == MediaLoop(message, 1, EmptyProjection)
    IN [ columns |-> StaticKeys \o loc.columns \o media.columns,
         values |-> [ i \in 1..Len(StaticKeys) |-> Get(message, StaticKeys[i]) ]
                        \o loc.values ]

\* columns = static + location + media; values likewise.
Projection(message) ==
    LET loc == LocationLoop(message, 1, EmptyProjection)
        media == MediaLoop(message, 1, EmptyProjection)
    IN [ columns |-> StaticKeys \o loc.columns \o media.columns,
         values |-> [ i \in 1..Len(StaticKeys) |-> Get(message, StaticKeys[i]) ]
                        \o loc.values \o media.values ]

\* ------------------------------------------------- handlers.py projections
\* for loc_type in [...]: append column and value when message.get is truthy.
RECURSIVE HandlerLocationLoop(_, _, _)
HandlerLocationLoop(message, i, acc) ==
    IF i > Len(HandlerLocTypes) THEN acc
    ELSE LET k == HandlerLocTypes[i] IN
         HandlerLocationLoop(message, i + 1,
            IF Truthy(Get(message, k))
            THEN [ columns |-> Append(acc.columns, k),
                   values |-> Append(acc.values, Get(message, k)) ]
            ELSE acc)

\* for i in range(10): media_content_type_{i}, then media_url_{i}, each when
\* the message's MediaContentType{i} / MediaUrl{i} is truthy.
RECURSIVE HandlerMediaLoop(_, _, _)
HandlerMediaLoop(message, i, acc) ==
    IF i > Len(MediaTypeKeys) THEN acc
    ELSE LET tk == MediaTypeKeys[i]
             uk == MediaUrlKeys[i]
             a1 == IF Truthy(Get(message, tk))
                   THEN [ columns |-> Append(acc.columns, HandlerMediaTypeColumns[i]),
                          values |-> Append(acc.values, Get(message, tk)) ]
                   ELSE acc
             a2 == IF Truthy(Get(message, uk))
                   THEN [ columns |-> Append(a1.columns, HandlerMediaUrlColumns[i]),
                          values |-> Append(a1.values, Get(message, uk)) ]
                   ELSE a1
         IN HandlerMediaLoop(message, i + 1, a2)

\* handle_twilio_sms: static columns, then location, then media.
handle_twilio_sms(message) ==
    LET loc == HandlerLocationLoop(message, 1, EmptyProjection)
        media == HandlerMediaLoop(message, 1, EmptyProjection)
    IN [ columns |-> HandlerStaticColumns \o loc.columns \o media.columns,
         values |-> [ i \in 1..Len(HandlerStaticKeys) |->
                         Get(message, HandlerStaticKeys[i]) ]
                        \o loc.values \o media.values ]

\* handle_message_event: seven columns, each value read with message.get.
handle_message_event(message) ==
    [ columns |-> MessageEventColumns,
      values |-> [ i \in 1..Len(MessageEventKeys) |->
                      Get(message, MessageEventKeys[i]) ] ]

\* ------------------------------------------------------ callback (app.py)
\* What the store and the broker connection do during one run of callback:
\*   ok                everything the run asks for succeeds
\*   pg_down           psycopg.connect raises psycopg.Error
\*   execute_rejected  cursor.execute raises DatabaseError
\*   commit_failed     conn.commit raises DatabaseError
\*   ack_lost          basic_ack finds the broker connection gone
Envs == { "ok", "pg_down", "execute_rejected", "commit_failed", "ack_lost" }

\* The effects of one run on the store and the channel, in program order,
\* and the exception (if any) that leaves the function.
Outcome(events, raised) == [ events |-> events, raised |-> raised ]

\* connect_to_postgres(): the connection, or None after logging the error.
connect_to_postgres(env) == env # "pg_down"

\* InsertAndAck with basic_ack moved in front of conn.commit().
InsertAndAck_AckBeforeCommit(proj, env) ==
    IF Len(proj.columns) # Len(proj.values)
    THEN Outcome(<< "pg_connect", "close" >>, "ValueError")
    ELSE IF env = "execute_rejected"
    THEN Outcome(<< "pg_connect", "execute", "DatabaseError", "close" >>, "none")
    ELSE IF env = "ack_lost"
    THEN Outcome(<< "pg_connect", "execute", "basic_ack", "close" >>,
                 "AMQPConnectionError")
    ELSE IF env = "commit_failed"
    THEN Outcome(<< "pg_connect", "execute", "basic_ack", "commit_failed",
                    "DatabaseError", "close" >>, "none")
    ELSE Outcome(<< "pg_connect", "execute", "basic_ack", "commit", "close" >>,
                 "none")

\* InsertAndAck with basic_ack moved into the finally clause.
InsertAndAck_AckInFinally(proj, env) ==
    IF Len(proj.columns) # Len(proj.values)
    THEN Outcome(<< "pg_connect", "basic_ack", "close" >>, "ValueError")
    ELSE IF env = "execute_rejected"
    THEN Outcome(<< "pg_connect", "execute", "DatabaseError", "basic_ack",
                    "close" >>, "none")
    ELSE IF env = "commit_failed"
    THEN Outcome(<< "pg_connect", "execute", "commit_failed", "DatabaseError",
                    "basic_ack", "close" >>, "none")
    ELSE IF env = "ack_lost"
    THEN Outcome(<< "pg_connect", "execute", "commit", "basic_ack", "close" >>,
                 "AMQPConnectionError")
    ELSE Outcome(<< "pg_connect", "execute", "commit", "basic_ack", "close" >>,
                 "none")

\* InsertAndAck with conn.close() after basic_ack instead of in finally.
InsertAndAck_CloseAfterAck(proj, env) ==
    IF Len(proj.columns) # Len(proj.values)
    THEN Outcome(<< "pg_connect" >>, "ValueError")
    ELSE IF env = "execute_rejected"
    THEN Outcome(<< "pg_connect", "execute", "DatabaseError" >>, "none")
    ELSE IF env = "commit_failed"
    THEN Outcome(<< "pg_connect", "execute", "commit_failed", "DatabaseError" >>,
                 "none")
    ELSE IF env = "ack_lost"
    THEN Outcome(<< "pg_connect", "execute", "commit", "basic_ack" >>,
                 "AMQPConnectionError")
    ELSE Outcome(<< "pg_connect", "execute", "commit", "basic_ack", "close" >>,
                 "none")

\* The body of "if conn:" for an open connection.
InsertAndAck(proj, env) ==
    IF Len(proj.columns) # Len(proj.values)
    THEN Outcome(<< "pg_connect", "close" >>, "ValueError")
    ELSE IF env = "execute_rejected"
    THEN Outcome(<< "pg_connect", "execute", "DatabaseError", "close" >>, "none")
    ELSE IF env = "commit_failed"
    THEN Outcome(<< "pg_connect", "execute", "commit_failed", "DatabaseError",
                    "close" >>, "none")
    ELSE IF env = "ack_lost"
    THEN Outcome(<< "pg_connect", "execute", "commit", "basic_ack", "close" >>,
                 "AMQPConnectionError")
    ELSE Outcome(<< "pg_connect", "execute", "commit", "basic_ack", "close" >>,
                 "none")

\* callback acknowledging in the "No database connection available" branch.
callback_AckWithoutConnection(body, env) ==
    LET dec == json_loads(body) IN
    IF ~dec.ok
    THEN Outcome(<< >>, "none")
    ELSE IF ~dec.isdict
    THEN Outcome(<< >>, "AttributeError")
    ELSE IF ~connect_to_postgres(env)
    THEN Outcome(<< "pg_connect_failed", "basic_ack" >>, "none")
    ELSE InsertAndAck(Projection(dec.value), env)

callback(body, env) ==
    LET dec == json_loads(body) IN
    IF ~dec.ok
    THEN Outcome(<< >>, "none")                 \* except JSONDecodeError: log
    ELSE IF ~dec.isdict
    THEN Outcome(<< >>, "AttributeError")       \* message.get on a non-dict
    ELSE IF ~connect_to_postgres(env)
    THEN Outcome(<< "pg_connect_failed" >>, "none")   \* conn is None: log
    ELSE InsertAndAck(Projection(dec.value), env)

\* callback depends on the body and on what the environment does, and on
\* nothing else: its runs, computed once.
callbackRuns == [ body \in Bodies |-> [ env \in Envs |-> callback(body, env) ] ]

Count(events, e) == Cardinality({ i \in 1..Len(events) : events[i] = e })
Has(events, e) == \E i \in 1..Len(events) : events[i] = e

\* Every occurrence of e in events comes after an occurrence of d.
OnlyAfter(events, e, d) ==
    \A i \in 1..Len(events) :
        events[i] = e => \E j \in 1..(i - 1) : events[j] = d

\* The channel was asked to reject the delivery.
Rejected(events) == Has(events, "basic_reject") \/ Has(events, "basic_nack")

\* The message types MESSAGE_HANDLERS holds once handlers.py is imported.
RegisteredTags ==
    { "postgres", "twilio.sms.incoming", "twilio.sms.outgoing",
      "twilio.voice-intelligence", "twilio.call-events", "groupme.msg",
      "groupme.img", "groupme.callback" }

\* --------------------------------------------------------- database.py
\* with get_db_connection() as connection: <body>
\*   psycopg.connect raises: logged and raised again, connection is None and
\*     the finally clause closes nothing;
\*   the body raises: logged and raised again, the finally clause closes;
\*   otherwise the finally clause closes.
get_db_connection(connects, bodyRaises) ==
    IF ~connects
    THEN Outcome(<< "pg_connect_failed" >>, "Error")
    ELSE IF bodyRaises
    THEN Outcome(<< "pg_connect", "body", "close" >>, "Error")
    ELSE Outcome(<< "pg_connect", "body", "close" >>, "none")

\* SQL text is a sequence of tokens; "%s" is the placeholder token.
RECURSIVE Join(_, _)
Join(items, sep) ==
    IF Len(items) = 0 THEN << >>
    ELSE IF Len(items) = 1 THEN << items[1] >>
    ELSE << items[1], sep >> \o Join(Tail(items), sep)

Placeholders(n) == [ i \in 1..n |-> "%s" ]

\* build_insert_query writing the values themselves into the statement.
build_insert_query_Interpolated(table_name, columns, values) ==
    [ query |-> << "INSERT INTO", table_name, "(" >> \o Join(columns, ",")
                    \o << ")", "VALUES", "(" >>
                    \o Join(values, ",") \o << ")" >>,
      values |-> values ]

\* INSERT INTO {table_name} ({', '.join(columns)})
\* VALUES ({', '.join(['%s'] * len(values))})
build_insert_query(table_name, columns, values) ==
    [ query |-> << "INSERT INTO", table_name, "(" >> \o Join(columns, ",")
                    \o << ")", "VALUES", "(" >>
                    \o Join(Placeholders(Len(values)), ",") \o << ")" >>,
      values |-> values ]

\* The tokens between the k-th "(" and the ")" that follows it, separators
\* left out: the column list (k = 1) or the placeholder list (k = 2).
\* Written without recursion: a statement of a full projection has some
\* seventy tokens.
NotSeparator(token) == token # ","

Group(query, i, k, inside) ==
    LET opens == { j \in i..Len(query) :
                     /\ query[j] = "("
                     /\ Cardinality({ h \in i..j : query[h] = "(" }) = k }
    IN IF opens = {} THEN << >>
       ELSE LET open == CHOOSE j \in opens : TRUE
                closes == { j \in (open + 1)..Len(query) :
                              query[j] \in { "(", ")" } }
                close == IF closes = {} THEN Len(query) + 1
                         ELSE CHOOSE j \in closes : \A h \in closes : j <= h
            IN SelectSeq(SubSeq(query, open + 1, close - 1), NotSeparator)

\* The store parses an INSERT: it runs only with as many target columns as
\* expressions, and at least one of each.
WellFormedInsert(query) ==
    /\ Len(Group(query, 1, 1, FALSE)) = Len(Group(query, 1, 2, FALSE))
    /\ Len(Group(query, 1, 1, FALSE)) > 0

\* execute_query(cursor, query, values): what the cursor was handed, and the
\* exception that leaves the function.
\*   query % tuple(values) raises TypeError unless there is one value per "%s";
\*   cursor.execute raises DatabaseError when the store rejects the statement,
\*   which is logged and raised again.
execute_query(query, values, storeAccepts) ==
    IF Count(query, "%s") # Len(values)
    THEN [ executed |-> << >>, raised |-> "TypeError" ]
    ELSE [ executed |-> << [ query |-> query, values |-> values ] >>,
           raised |-> IF WellFormedInsert(query) /\ storeAccepts
                      THEN "none" ELSE "DatabaseError" ]


\* ------------------------------------- retry_callback (retry_dead_messages)
\* basic_publish(exchange="", routing_key=POSTGRES_QUEUE, body=body), then
\* basic_ack.  pubOK / ackOK: the call reaches the broker.
Publication(body) ==
    [ exchange |-> DEFAULT_EXCHANGE, routing_key |-> POSTGRES_QUEUE, body |-> body ]

NoPublication == [ exchange |-> "-", routing_key |-> "-", body |-> "-" ]

\* retry_callback acknowledging before it republishes.
retry_callback_AckFirst(body, pubOK, ackOK) ==
    IF ~ackOK
    THEN [ events |-> << "basic_ack" >>, raised |-> "AMQPConnectionError",
           publication |-> NoPublication ]
    ELSE IF ~pubOK
    THEN [ events |-> << "basic_ack" >>, raised |-> "AMQPConnectionError",
           publication |-> NoPublication ]
    ELSE [ events |-> << "basic_ack", "basic_publish" >>,
           raised |-> "none", publication |-> Publication(body) ]

retry_callback(body, pubOK, ackOK) ==
    IF ~pubOK
    THEN [ events |-> << >>, raised |-> "AMQPConnectionError",
           publication |-> NoPublication ]
    ELSE IF ~ackOK
    THEN [ events |-> << "basic_publish", "basic_ack" >>,
           raised |-> "AMQPConnectionError", publication |-> Publication(body) ]
    ELSE [ events |-> << "basic_publish", "basic_ack" >>,
           raised |-> "none", publication |-> Publication(body) ]

\* ------------------------------------------------------------------ state
VARIABLES
    queues,        \* names of the queues declared on the broker
    primaryQ,      \* ready messages of the primary queue
    dlq,           \* ready messages of the dead-letter queue
    pUnacked,      \* delivered to the primary consumer, neither acked nor rejected
    pState,        \* position of the consume_messages thread
    pConn,         \* the primary consumer's broker connection is open
    dState,        \* position of the retry_dead_messages thread
    rows,          \* committed rows per message id
    published,     \* number of messages producers have published
    last,          \* the run of callback the primary consumer is returning from
    lastRetry,     \* the run of retry_callback the dead-letter consumer returns from
    deadLettered,  \* ids of messages the primary queue's TTL expired
    republished,   \* times each message was republished to the primary queue
    dropped,       \* ids of messages the broker discarded as unroutable
    faults,        \* failures of the store and of broker connections so far
    insertCall,    \* a call of build_insert_query and execute_query
    pRetry,        \* connection attempts, errors and waits of consume_messages
    dRetry,        \* connection attempts, errors and waits of retry_dead_messages
    handlerCall    \* a call of a projection: callback's, or a handler's

vars == << queues, primaryQ, dlq, pUnacked, pState, pConn, dState, rows,
           published, last, lastRetry, deadLettered, republished,
           dropped, faults, insertCall, pRetry, dRetry, handlerCall >>

Ids == 1..MaxMsgs

\* No callback is being handled.
NoBody == "-"
NoDelivery == [ body |-> NoBody, env |-> "ok", events |-> << >>, raised |-> "none" ]
NoRetry == [ body |-> NoBody, events |-> << >>, raised |-> "none",
             publication |-> NoPublication ]

Message(id, body, key) == [ id |-> id, body |-> body, key |-> key ]

\* No call of the insert helpers is under way.
NoCall == [ columns |-> << >>, values |-> << >>, phase |-> "none",
            query |-> << >>, bound |-> << >>, executed |-> << >>,
            raised |-> "none" ]

\* queue_bind(exchange="dead_letter_exchange", queue="dead_letter_queue"):
\* no routing key is given, so the binding key is the queue's name.
DLBindingKey == DL_QUEUE

\* A direct exchange hands a message to the queues bound with its routing key.
DirectRoute(bindingKey, key) == key = bindingKey

\* What a consumer thread has done about its broker connection so far:
\*   attempts  calls of pika.BlockingConnection
\*   failed    attempts that raised AMQPConnectionError
\*   lost      open connections that ended in AMQPConnectionError
\*   waits     calls of time.sleep(5)
NoRetries == [ attempts |-> 0, failed |-> 0, lost |-> 0, waits |-> 0 ]

\* No projection is being computed.
NoHandlerCall ==
    [ phase |-> "none", handler |-> "-", message |-> Obj({}),
      columns |-> << >>, values |-> << >>, executed |-> << >>,
      raised |-> "none" ]

\* except pika.exceptions.AMQPConnectionError: log, time.sleep(5), and the
\* while loop starts over.  A call of the handler that skips the sleep:
except_AMQPConnectionError_NoSleep(retry) == retry

except_AMQPConnectionError(retry) == [ retry EXCEPT !.waits = @ + 1 ]

\* The environment (store, network) fails at most MaxFaults times.
Failure(allWell) ==
    IF allWell THEN faults' = faults
    ELSE faults < MaxFaults /\ faults' = faults + 1

InitSystem ==
    /\ queues = {}
    /\ primaryQ = << >>
    /\ dlq = << >>
    /\ pUnacked = << >>
    /\ pState = "Disconnected"
    /\ pConn = FALSE
    /\ dState = "Disconnected"
    /\ rows = [ i \in Ids |-> 0 ]
    /\ published = 0
    /\ last = NoDelivery
    /\ lastRetry = NoRetry
    /\ deadLettered = {}
    /\ republished = [ i \in Ids |-> 0 ]
    /\ dropped = {}
    /\ faults = 0
    /\ pRetry = NoRetries
    /\ dRetry = NoRetries

Init ==
    /\ InitSystem
    /\ insertCall = NoCall
    /\ handlerCall = NoHandlerCall

\* ---------------------------------------------------------------- broker
\* A producer publishes through the default exchange, which routes by queue
\* name: to the primary queue, or straight to the dead-letter queue.
PublishFrom(bodies) ==
    /\ published < MaxMsgs
    /\ \E key \in { POSTGRES_QUEUE, DL_QUEUE } :
       \E body \in IF key = POSTGRES_QUEUE THEN bodies ELSE ParkedBodies :
          /\ key \in queues
          /\ LET m == Message(published + 1, body, key) IN
             IF key = POSTGRES_QUEUE
             THEN primaryQ' = Append(primaryQ, m) /\ dlq' = dlq
             ELSE dlq' = Append(dlq, m) /\ primaryQ' = primaryQ
    /\ published' = published + 1
    /\ UNCHANGED << queues, pUnacked, pState, pConn, dState, rows, last,
                    lastRetry, deadLettered, republished, dropped , faults,
                    insertCall,
                    pRetry, dRetry, handlerCall >>

Publish == PublishFrom(Bodies)

\* x-message-ttl / x-dead-letter-exchange: a message that stays ready in the
\* primary queue past the TTL is republished by the broker to the dead-letter
\* exchange under the routing key it was published with.  Only ready messages
\* expire, and a subscribed consumer is handed ready messages at once.
TTLExpire ==
    /\ primaryQ # << >>
    /\ ~pConn
    /\ LET m == Head(primaryQ) IN
       /\ primaryQ' = Tail(primaryQ)
       /\ deadLettered' = deadLettered \cup { m.id }
       /\ IF DirectRoute(DLBindingKey, m.key) /\ DL_QUEUE \in queues
          THEN dlq' = Append(dlq, m) /\ dropped' = dropped
          ELSE dlq' = dlq /\ dropped' = dropped \cup { m.id }
    /\ UNCHANGED << queues, pUnacked, pState, pConn, dState, rows, published,
                    last, lastRetry, republished , faults,
                    insertCall,
                    pRetry, dRetry, handlerCall >>

\* ------------------------------------------------------ consume_messages
\* pika.BlockingConnection(parameters); connection.channel().  An attempt
\* the broker does not answer raises AMQPConnectionError: the except clause
\* runs and the loop comes back to this line.
PConnect ==
    /\ pState = "Disconnected"
    /\ \E up \in BOOLEAN :
          /\ Failure(up)
          /\ IF up
             THEN /\ pState' = "Connected"
                  /\ pConn' = TRUE
                  /\ pRetry' = [ pRetry EXCEPT !.attempts = @ + 1 ]
             ELSE /\ pState' = "Disconnected"
                  /\ pConn' = FALSE
                  /\ pRetry' = except_AMQPConnectionError(
                                  [ pRetry EXCEPT !.attempts = @ + 1,
                                                  !.failed = @ + 1 ])
    /\ UNCHANGED << queues, primaryQ, dlq, pUnacked, dState, rows, published,
                    last, lastRetry, deadLettered, republished,
                    dropped, insertCall, dRetry, handlerCall >>

\* exchange_declare, queue_declare(dead_letter_queue), queue_bind
PDeclareDeadLetter ==
    /\ pState = "Connected"
    /\ pState' = "DeadLetterReady"
    /\ queues' = queues \cup { DL_QUEUE }
    /\ UNCHANGED << primaryQ, dlq, pUnacked, pConn, dState, rows, published,
                    last, lastRetry, deadLettered, republished,
                    dropped , faults,
                    insertCall,
                    pRetry, dRetry, handlerCall >>

\* queue_declare(POSTGRES_QUEUE, x-message-ttl, x-dead-letter-exchange)
PDeclarePrimary ==
    /\ pState = "DeadLetterReady"
    /\ pState' = "TopologyReady"
    /\ queues' = queues \cup { POSTGRES_QUEUE }
    /\ UNCHANGED << primaryQ, dlq, pUnacked, pConn, dState, rows, published,
                    last, lastRetry, deadLettered, republished,
                    dropped , faults,
                    insertCall,
                    pRetry, dRetry, handlerCall >>

\* basic_consume(auto_ack=False); start_consuming()
PSubscribe ==
    /\ pState = "TopologyReady"
    /\ pState' = "Consuming"
    /\ UNCHANGED << queues, primaryQ, dlq, pUnacked, pConn, dState, rows,
                    published, last, lastRetry, deadLettered,
                    republished, dropped , faults,
                    insertCall,
                    pRetry, dRetry, handlerCall >>

\* One delivery handed to callback by start_consuming: the whole run of
\* callback, with its effects on the store and on the broker.
\*   basic_ack reached the broker: the delivery is settled;
\*   basic_ack failed: the connection is gone, the broker requeues what the
\*     channel held unacknowledged, this delivery included;
\*   otherwise the delivery stays unacknowledged on the open channel.
PDeliver ==
    /\ pState = "Consuming"
    /\ primaryQ # << >>
    /\ LET m == Head(primaryQ) IN
       /\ \E env \in Envs :
            LET out == callbackRuns[m.body][env] IN
            /\ Failure(env = "ok")
            /\ last' = [ body |-> m.body, env |-> env, events |-> out.events,
                         raised |-> out.raised ]
            /\ rows' = IF Has(out.events, "commit")
                       THEN [ rows EXCEPT ![m.id] = @ + 1 ] ELSE rows
            /\ IF out.raised = "AMQPConnectionError"
               THEN /\ pConn' = FALSE
                    /\ primaryQ' = pUnacked \o primaryQ
                    /\ pUnacked' = << >>
               ELSE /\ pConn' = pConn
                    /\ primaryQ' = Tail(primaryQ)
                    /\ pUnacked' = IF Has(out.events, "basic_ack")
                                   THEN pUnacked ELSE Append(pUnacked, m)
    /\ pState' = "Returning"
    /\ UNCHANGED << queues, dlq, dState, published, lastRetry, deadLettered,
                    republished, dropped,
                    insertCall,
                    pRetry, dRetry, handlerCall >>

\* What consume_messages does with the way callback ended:
\*   it returned: start_consuming waits for the next delivery;
\*   AMQPConnectionError: except clause, sleep, next round of the loop;
\*   any other exception is not caught: the thread ends.
PAfterCallback ==
    /\ pState = "Returning"
    /\ pState' = CASE last.raised = "none" -> "Consuming"
                   [] last.raised = "AMQPConnectionError" -> "Disconnected"
                   [] OTHER -> "Terminated"
    /\ pRetry' = IF last.raised = "AMQPConnectionError"
                 THEN except_AMQPConnectionError(
                          [ pRetry EXCEPT !.lost = @ + 1 ])
                 ELSE pRetry
    /\ last' = NoDelivery
    /\ UNCHANGED << queues, primaryQ, dlq, pUnacked, pConn, dState, rows,
                    published, lastRetry, deadLettered, republished, dropped,
                    faults, insertCall, dRetry, handlerCall >>

\* PConnectionLost with the exception left uncaught: the thread ends.
PConnectionLost_ThreadEnds ==
    /\ Failure(FALSE)
    /\ pState \in { "Connected", "DeadLetterReady", "TopologyReady", "Consuming" }
    /\ pState' = "Terminated"
    /\ pConn' = FALSE
    /\ primaryQ' = pUnacked \o primaryQ
    /\ pUnacked' = << >>
    /\ UNCHANGED << queues, dlq, dState, rows, published, last, lastRetry,
                    deadLettered, republished, dropped,
                    insertCall, pRetry, dRetry, handlerCall >>

\* The broker connection fails: AMQPConnectionError is caught at the loop
\* boundary, the thread sleeps and starts over; unacked deliveries requeue.
PConnectionLost ==
    /\ Failure(FALSE)
    /\ pState \in { "Connected", "DeadLetterReady", "TopologyReady", "Consuming" }
    /\ pState' = "Disconnected"
    /\ pConn' = FALSE
    /\ primaryQ' = pUnacked \o primaryQ
    /\ pUnacked' = << >>
    /\ pRetry' = except_AMQPConnectionError([ pRetry EXCEPT !.lost = @ + 1 ])
    /\ UNCHANGED << queues, dlq, dState, rows, published, last, lastRetry,
                    deadLettered, republished, dropped,
                    insertCall, dRetry, handlerCall >>

\* After the thread has ended nobody serves the connection: the broker
\* closes it (missed heartbeats) and requeues its unacked deliveries.
PAbandonedClose ==
    /\ pState = "Terminated"
    /\ pConn
    /\ pConn' = FALSE
    /\ primaryQ' = pUnacked \o primaryQ
    /\ pUnacked' = << >>
    /\ UNCHANGED << queues, dlq, pState, dState, rows, published, last,
                    lastRetry, deadLettered, republished, dropped , faults,
                    insertCall,
                    pRetry, dRetry, handlerCall >>

\* --------------------------------------------------- retry_dead_messages
\* pika.BlockingConnection(parameters); connection.channel()
DConnect ==
    /\ dState = "Disconnected"
    /\ \E up \in BOOLEAN :
          /\ Failure(up)
          /\ IF up
             THEN /\ dState' = "Connected"
                  /\ dRetry' = [ dRetry EXCEPT !.attempts = @ + 1 ]
             ELSE /\ dState' = "Disconnected"
                  /\ dRetry' = except_AMQPConnectionError(
                                  [ dRetry EXCEPT !.attempts = @ + 1,
                                                  !.failed = @ + 1 ])
    /\ UNCHANGED << queues, primaryQ, dlq, pUnacked, pState, pConn, rows,
                    published, last, lastRetry, deadLettered,
                    republished, dropped, insertCall, pRetry, handlerCall >>

\* basic_consume(queue="dead_letter_queue"): the thread declares nothing, so
\* a queue that does not exist yet closes the channel (ChannelClosedByBroker,
\* not an AMQPConnectionError) and the thread ends.
DSubscribe ==
    /\ dState = "Connected"
    /\ dState' = IF DL_QUEUE \in queues THEN "Consuming" ELSE "Terminated"
    /\ UNCHANGED << queues, primaryQ, dlq, pUnacked, pState, pConn, rows,
                    published, last, lastRetry, deadLettered,
                    republished, dropped , faults,
                    insertCall,
                    pRetry, dRetry, handlerCall >>

\* One delivery handed to retry_callback.  The default exchange routes the
\* publication to the queue named by its routing key, if there is one; a
\* delivery whose ack did not reach the broker stays in the dead-letter queue.
DDeliver ==
    /\ dState = "Consuming"
    /\ dlq # << >>
    /\ LET m == Head(dlq) IN
       /\ \E pubOK \in BOOLEAN, ackOK \in BOOLEAN :
            LET out == retry_callback(m.body, pubOK, ackOK)
                pub == out.publication
            IN
            /\ Failure(pubOK /\ ackOK)
            /\ lastRetry' = [ body |-> m.body, events |-> out.events,
                              raised |-> out.raised, publication |-> pub ]
            /\ IF Has(out.events, "basic_publish")
               THEN /\ republished' = [ republished EXCEPT ![m.id] = @ + 1 ]
                    /\ IF pub.routing_key \in queues
                       THEN /\ primaryQ' = Append(primaryQ,
                                    Message(m.id, pub.body, pub.routing_key))
                            /\ dropped' = dropped
                       ELSE /\ primaryQ' = primaryQ
                            /\ dropped' = dropped \cup { m.id }
               ELSE UNCHANGED << republished, primaryQ, dropped >>
            /\ dlq' = IF out.raised = "none" THEN Tail(dlq) ELSE dlq
    /\ dState' = "Returning"
    /\ UNCHANGED << queues, pUnacked, pState, pConn, rows, published, last,
                    deadLettered,
                    insertCall,
                    pRetry, dRetry, handlerCall >>

\* What retry_dead_messages does with the way retry_callback ended.
DAfterCallback ==
    /\ dState = "Returning"
    /\ dState' = CASE lastRetry.raised = "none" -> "Consuming"
                   [] lastRetry.raised = "AMQPConnectionError" -> "Disconnected"
                   [] OTHER -> "Terminated"
    /\ dRetry' = IF lastRetry.raised = "AMQPConnectionError"
                 THEN except_AMQPConnectionError(
                          [ dRetry EXCEPT !.lost = @ + 1 ])
                 ELSE dRetry
    /\ lastRetry' = NoRetry
    /\ UNCHANGED << queues, primaryQ, dlq, pUnacked, pState, pConn, rows,
                    published, last, deadLettered, republished, dropped,
                    faults, insertCall, pRetry, handlerCall >>

DConnectionLost ==
    /\ Failure(FALSE)
    /\ dState \in { "Connected", "Consuming" }
    /\ dState' = "Disconnected"
    /\ dRetry' = except_AMQPConnectionError([ dRetry EXCEPT !.lost = @ + 1 ])
    /\ UNCHANGED << queues, primaryQ, dlq, pUnacked, pState, pConn, rows,
                    published, last, lastRetry, deadLettered,
                    republished, dropped,
                    insertCall, pRetry, handlerCall >>

Next ==
    \/ Publish
    \/ TTLExpire
    \/ PConnect
    \/ PDeclareDeadLetter
    \/ PDeclarePrimary
    \/ PSubscribe
    \/ PDeliver
    \/ PAfterCallback
    \/ PConnectionLost
    \/ PAbandonedClose
    \/ DConnect
    \/ DSubscribe
    \/ DDeliver
    \/ DAfterCallback
    \/ DConnectionLost

Spec == Init /\ [][Next]_vars

\* The statements of consume_messages, which runs them one at a time.
PThread ==
    \/ PConnect
    \/ PDeclareDeadLetter
    \/ PDeclarePrimary
    \/ PSubscribe
    \/ PDeliver
    \/ PAfterCallback

\* The statements of retry_dead_messages.
DThread ==
    \/ DConnect
    \/ DSubscribe
    \/ DDeliver
    \/ DAfterCallback

\* What the broker does by itself: expiry, and closing a dead connection.
Broker ==
    \/ TTLExpire
    \/ PAbandonedClose

\* Both threads keep running (the statement a thread has reached is
\* executed), and the broker does what is due.  Failures of the store and of
\* connections are not required to happen.
Fairness ==
    /\ WF_vars(PThread)
    /\ WF_vars(DThread)
    /\ WF_vars(Broker)

\* The bodies published in the runs checked for progress: one the callback
\* inserts (or fails to, when the store does), one that ends the thread.
LiveBodies == { "sms_plain", "json_list" }

PublishLive == PublishFrom(LiveBodies)

NextLive ==
    \/ PublishLive
    \/ TTLExpire
    \/ PConnect
    \/ PDeclareDeadLetter
    \/ PDeclarePrimary
    \/ PSubscribe
    \/ PDeliver
    \/ PAfterCallback
    \/ PConnectionLost
    \/ PAbandonedClose
    \/ DConnect
    \/ DSubscribe
    \/ DDeliver
    \/ DAfterCallback
    \/ DConnectionLost

SpecLive == Init /\ [][NextLive]_vars /\ Fairness

\* ------------------------------------------- calls of the insert helpers
ColumnNames == { "text", "bot_id" }
ValueSet == { "a", "b" }

BoundedSeq(S, n) == UNION { [ 1..k -> S ] : k \in 0..n }

\* A handler is about to pass a projection to the helpers.
InitInsert ==
    /\ InitSystem
    /\ \E columns \in BoundedSeq(ColumnNames, MaxCols),
          values \in BoundedSeq(ValueSet, MaxVals) :
          insertCall = [ NoCall EXCEPT !.columns = columns,
                                       !.values = values,
                                       !.phase = "ready" ]
    /\ handlerCall = NoHandlerCall

\* query, values = build_insert_query(TABLE, columns, values)
\* execute_query(cursor, query, values)
InsertCall ==
    /\ insertCall.phase = "ready"
    /\ \E storeAccepts \in BOOLEAN :
          LET built == build_insert_query("messages", insertCall.columns,
                                          insertCall.values)
              run == execute_query(built.query, built.values, storeAccepts)
          IN insertCall' = [ insertCall EXCEPT !.phase = "done",
                                               !.query = built.query,
                                               !.bound = built.values,
                                               !.executed = run.executed,
                                               !.raised = run.raised ]
    /\ UNCHANGED << queues, primaryQ, dlq, pUnacked, pState, pConn, dState,
                    rows, published, last, lastRetry, deadLettered,
                    republished, dropped, faults, pRetry, dRetry,
                    handlerCall >>

NextInsert == InsertCall

SpecInsert == InitInsert /\ [][NextInsert]_vars

\* ------------------------------------------------ calls of the projections
\* The fields that vary between the messages handed to the projections, and
\* what a message may hold for each: nothing, an empty string, a string.
ProbeKeys ==
    { "FromCity", "FromZip", "from_state", "MediaContentType0", "MediaUrl0",
      "MediaUrl9", "text", "picture_url" }

FieldValues == { Absent, "", "v" }

\* A decoded message is about to be projected.
InitProjection ==
    /\ InitSystem
    /\ insertCall = NoCall
    /\ \E choice \in [ ProbeKeys -> FieldValues ] :
          handlerCall =
            [ NoHandlerCall EXCEPT
                !.phase = "ready",
                !.message = [ k \in AllKeys |->
                                IF k \in ProbeKeys THEN choice[k]
                                ELSE IF k \in Range(StaticKeys) THEN "v"
                                ELSE Absent ] ]

\* The projection is built, the statement made from it and handed to the
\* cursor.
Projected(handler, proj, storeAccepts) ==
    LET built == build_insert_query("messages", proj.columns, proj.values)
        run == execute_query(built.query, built.values, storeAccepts)
    IN /\ handlerCall.phase = "ready"
       /\ handlerCall' = [ handlerCall EXCEPT !.phase = "done",
                                              !.handler = handler,
                                              !.columns = proj.columns,
                                              !.values = proj.values,
                                              !.executed = run.executed,
                                              !.raised = run.raised ]
       /\ UNCHANGED << queues, primaryQ, dlq, pUnacked, pState, pConn, dState,
                       rows, published, last, lastRetry, deadLettered,
                       republished, dropped, faults, insertCall, pRetry,
                       dRetry >>

\* callback, lines 91-158
ProjectCallback ==
    \E storeAccepts \in BOOLEAN :
        Projected("callback", Projection(handlerCall.message), storeAccepts)

ProjectTwilioSms ==
    \E storeAccepts \in BOOLEAN :
        Projected("handle_twilio_sms", handle_twilio_sms(handlerCall.message),
                  storeAccepts)

ProjectMessageEvent ==
    \E storeAccepts \in BOOLEAN :
        Projected("handle_message_event",
                  handle_message_event(handlerCall.message), storeAccepts)

NextProjection ==
    \/ ProjectCallback
    \/ ProjectTwilioSms
    \/ ProjectMessageEvent

SpecProjection == InitProjection /\ [][NextProjection]_vars

\* ------------------------------------------------------------ properties
Decoded == json_loads(last.body)

\* The primary consumer has just run callback on a delivery.
Handled == pState = "Returning"

\* The delivery just handled is still held, unacknowledged, by the channel.
HeldUnacked ==
    /\ pUnacked # << >>
    /\ pUnacked[Len(pUnacked)].body = last.body

\* An exception was raised between acquiring the connection and the ack.
FailedAfterConnect ==
    Has(last.events, "DatabaseError") \/ last.raised = "ValueError"

\* C1: in callback, basic_ack for a delivery is issued only after the insert
\* of that delivery was committed; a delivery without commit is never acked.
C1_AckOnlyAfterCommit ==
    Handled =>
        /\ OnlyAfter(last.events, "basic_ack", "commit")
        /\ OnlyAfter(last.events, "commit", "execute")
        /\ (~Has(last.events, "commit") => ~Has(last.events, "basic_ack"))

C1_Witness ==
    /\ Handled
    /\ Decoded.ok /\ Decoded.isdict
    /\ Has(last.events, "commit")
    /\ Has(last.events, "basic_ack")

\* C2: for a valid envelope, with the store reachable and accepting the row,
\* one delivery yields exactly one committed insert and exactly one ack.
C2_OneCommitOneAck ==
    ( /\ Handled
      /\ Decoded.ok /\ Decoded.isdict
      /\ last.env \in { "ok", "ack_lost" } )
    => /\ Count(last.events, "execute") = 1
       /\ Count(last.events, "commit") = 1
       /\ Count(last.events, "basic_ack") = 1

C2_Witness ==
    /\ Handled
    /\ last.body = "sms_city_media"
    /\ last.env = "ok"
    /\ last.raised = "none"
    /\ Count(last.events, "commit") = 1

\* C3 (as claimed): a body that fails JSON decoding is acknowledged, without
\* a store connection and without an insert.
C3_MalformedIsAcked ==
    (Handled /\ ~Decoded.ok)
    => /\ Count(last.events, "basic_ack") = 1
       /\ ~Has(last.events, "pg_connect")
       /\ ~Has(last.events, "execute")

\* C4 (as claimed): no error other than a connection-level failure leaves
\* callback, so the consumer thread never ends.
C4_NoErrorEndsThread ==
    /\ Handled => last.raised \in { "none", "AMQPConnectionError" }
    /\ pState # "Terminated"

\* C5 (as claimed): a projection with a different number of columns than
\* values never has an insert statement executed for it, in callback and in
\* build_insert_query / execute_query alike.
C5_NoInsertOnMismatch ==
    /\ (Handled /\ last.raised = "ValueError") => ~Has(last.events, "execute")
    /\ ( /\ insertCall.phase = "done"
         /\ Len(insertCall.columns) # Len(insertCall.values) )
       => insertCall.executed = << >>

\* C6 (as claimed): on an exception during dispatch or insert the connection
\* is closed, nothing is committed and the message is rejected, not acked.
C6_FailureIsRejected ==
    (Handled /\ FailedAfterConnect)
    => /\ Has(last.events, "close")
       /\ ~Has(last.events, "commit")
       /\ ~Has(last.events, "basic_ack")
       /\ Rejected(last.events)

\* C6 (amended): on an exception during dispatch or insert the connection is
\* closed, nothing is committed, and the delivery is left unacknowledged:
\* neither basic_ack nor a reject is issued, and the channel still holds it.
C6_FailureLeavesUnacked ==
    (Handled /\ FailedAfterConnect)
    => /\ last.events[Len(last.events)] = "close"
       /\ Count(last.events, "close") = 1
       /\ ~Has(last.events, "commit")
       /\ ~Has(last.events, "basic_ack")
       /\ ~Rejected(last.events)
       /\ HeldUnacked

C6_Witness ==
    /\ Handled
    /\ last.env = "execute_rejected"
    /\ Has(last.events, "execute")
    /\ Has(last.events, "DatabaseError")

\* C7 (as claimed): when no store connection can be acquired, the delivery is
\* rejected, never acknowledged, and no insert is attempted.
C7_NoConnectionIsRejected ==
    (Handled /\ Has(last.events, "pg_connect_failed"))
    => /\ Rejected(last.events)
       /\ ~Has(last.events, "basic_ack")
       /\ ~Has(last.events, "execute")

\* C7 (amended): when no store connection can be acquired, no insert is
\* attempted and the delivery is left unacknowledged: neither basic_ack nor
\* a reject is issued, and the channel still holds it.
C7_NoConnectionLeavesUnacked ==
    (Handled /\ Decoded.ok /\ Decoded.isdict /\ last.env = "pg_down")
    => /\ ~Has(last.events, "pg_connect")
       /\ ~Has(last.events, "execute")
       /\ ~Has(last.events, "commit")
       /\ ~Has(last.events, "basic_ack")
       /\ ~Rejected(last.events)
       /\ last.raised = "none"
       /\ HeldUnacked

C7_Witness ==
    /\ Handled
    /\ last.body = "sms_plain"
    /\ last.env = "pg_down"
    /\ Has(last.events, "pg_connect_failed")

\* C8 (as claimed): an envelope with an unregistered type tag yields zero
\* inserts and exactly one acknowledgment.
C8_UnknownTypeNotInserted ==
    ( /\ Handled
      /\ Decoded.ok /\ Decoded.isdict
      /\ Get(Decoded.value, TypeKey) \notin RegisteredTags )
    => /\ ~Has(last.events, "execute")
       /\ Count(last.events, "basic_ack") = 1

\* C9 (as claimed): a message the primary queue's TTL expired reaches the
\* dead-letter queue, is republished at most once, and is never dropped.
C9_ExpiredIsRetried ==
    \A id \in deadLettered :
        /\ id \notin dropped
        /\ republished[id] <= 1
        /\ (republished[id] = 1 \/ \E i \in 1..Len(dlq) : dlq[i].id = id)

\* C10: retry_callback republishes the unmodified body through the default
\* exchange with the primary queue's name as routing key and only then
\* acknowledges; the ack follows every publish and never comes without one.
C10_RepublishThenAck ==
    dState = "Returning" =>
        /\ OnlyAfter(lastRetry.events, "basic_ack", "basic_publish")
        /\ Has(lastRetry.events, "basic_publish")
              => /\ Has(lastRetry.events, "basic_ack")
                 /\ lastRetry.publication.exchange = DEFAULT_EXCHANGE
                 /\ lastRetry.publication.routing_key = POSTGRES_QUEUE
                 /\ lastRetry.publication.body = lastRetry.body
        /\ Count(lastRetry.events, "basic_publish") <= 1
        /\ Count(lastRetry.events, "basic_ack") <= 1

C10_Witness ==
    /\ dState = "Returning"
    /\ lastRetry.raised = "none"
    /\ Has(lastRetry.events, "basic_publish")
    /\ Has(lastRetry.events, "basic_ack")
    /\ \E i \in 1..Len(primaryQ) :
          primaryQ[i].body = lastRetry.body /\ primaryQ[i].key = POSTGRES_QUEUE

\* One wait per AMQPConnectionError, none after a successful attempt, and
\* every error that is not the loss of an open connection is a failed
\* attempt.  holds: the thread is past a successful attempt.
Reconnects(retry, holds) ==
    /\ retry.waits = retry.failed + retry.lost
    /\ retry.attempts = retry.failed + retry.lost + (IF holds THEN 1 ELSE 0)

PThreadEnds ==
    /\ pState # "Terminated"
    /\ pState' = "Terminated"

\* A step that ends the retry_dead_messages thread.
DThreadEnds ==
    /\ dState # "Terminated"
    /\ dState' = "Terminated"

OpenConnections(events, n) ==
    Count(SubSeq(events, 1, n), "pg_connect") - Count(SubSeq(events, 1, n), "close")

\* A run opens at most one store connection at a time, closes each one it
\* opened, as its last effect, and closes nothing after a failed acquisition.
Scoped(events) ==
    /\ \A n \in 0..Len(events) : OpenConnections(events, n) \in { 0, 1 }
    /\ OpenConnections(events, Len(events)) = 0
    /\ Has(events, "pg_connect") => events[Len(events)] = "close"
    /\ Has(events, "pg_connect_failed")
          => ~Has(events, "pg_connect") /\ ~Has(events, "close")

\* C13: the store connection acquired for a delivery is closed when the
\* processing of that delivery ends, by whatever path; at most one is open at
\* a time; a failed acquisition is surfaced and nothing is closed.  The same
\* holds of every use of get_db_connection.
C13_ConnectionScoped ==
    /\ Handled =>
          /\ Scoped(last.events)
          /\ (Decoded.ok /\ Decoded.isdict)
                => (Has(last.events, "pg_connect_failed") <=> last.env = "pg_down")
          /\ (Decoded.ok /\ Decoded.isdict)
                => (Has(last.events, "pg_connect") <=> last.env # "pg_down")
    /\ \A connects \in BOOLEAN, bodyRaises \in BOOLEAN :
          LET run == get_db_connection(connects, bodyRaises) IN
          /\ Scoped(run.events)
          /\ ~connects => run.raised # "none"

C13_Witness ==
    /\ Handled
    /\ last.env = "commit_failed"
    /\ Has(last.events, "pg_connect")
    /\ last.events[Len(last.events)] = "close"
    /\ ~Has(last.events, "commit")

\* The channel holds a delivery of message id, neither acked nor rejected.
Held(id) == \E i \in 1..Len(pUnacked) : pUnacked[i].id = id

\* C14 (as claimed): a delivery left unacknowledged because processing failed
\* does not stay held forever: the broker moves it on to the dead-letter
\* queue, also while the consumer's connection stays open.
C14_UnackedIsDeadLettered ==
    \A id \in Ids : [](Held(id) => <>(~Held(id)))

\* C15 (as claimed): at most one delivery is outstanding on the primary
\* consumer's channel, and when a delivery has been processed no earlier one
\* is still outstanding.
C15_OneOutstanding ==
    /\ Len(pUnacked) <= 1
    /\ Handled =>
          Len(pUnacked) <= (IF Has(last.events, "basic_ack") THEN 0 ELSE 1)

\* C16 (as claimed): no consumer subscribes to a queue that has not been
\* declared: the dead-letter consumer's basic_consume always finds its queue.
C16_SubscribesAfterDeclare ==
    /\ pState = "Consuming" => POSTGRES_QUEUE \in queues
    /\ dState = "Consuming" => DL_QUEUE \in queues
    /\ dState # "Terminated"

\* Message id is somewhere on the way round: ready in the primary queue,
\* held by the primary consumer, or in the dead-letter queue.
InRetryLoop(id) ==
    \/ \E i \in 1..Len(primaryQ) : primaryQ[i].id = id
    \/ Held(id)
    \/ \E i \in 1..Len(dlq) : dlq[i].id = id

\* C17 (as claimed): a message whose processing has failed every time goes
\* round again after every dead-lettering: it is in the dead-letter queue to
\* be republished, or back in the primary queue, and is never discarded.
C17_RetriedWithoutBound ==
    \A id \in deadLettered : rows[id] = 0 => InRetryLoop(id)

\* a[1], b[1], a[2], b[2], ...
Interleave(a, b) ==
    [ i \in 1..(2 * Len(a)) |->
        IF i % 2 = 1 THEN a[(i + 1) \div 2] ELSE b[i \div 2] ]

\* The media keys in the order the loops read them (type 0, url 0, type 1,
\* ...), and the columns handle_twilio_sms gives them.
MediaKeys == Interleave(MediaTypeKeys, MediaUrlKeys)
HandlerMediaColumns == Interleave(HandlerMediaTypeColumns, HandlerMediaUrlColumns)

\* The variable-cardinality keys of a projection in the order its loops read
\* them, the columns they go to, and the number of its static columns.
VariableKeys(handler) ==
    IF handler = "callback" THEN LocTypes \o MediaKeys
    ELSE HandlerLocTypes \o MediaKeys

VariableColumns(handler) ==
    IF handler = "callback" THEN LocTypes \o MediaKeys
    ELSE HandlerLocTypes \o HandlerMediaColumns

StaticCount(handler) ==
    IF handler = "callback" THEN Len(StaticKeys) ELSE Len(HandlerStaticKeys)

Index(seq, x) == CHOOSE i \in 1..Len(seq) : seq[i] = x

\* The message holds the key / holds a value for it that Python takes as true.
IsPresent(message, key) == message[key] # Absent
IsTruthy(message, key) == Truthy(Get(message, key))

\* columns and values of a call are parallel: equally long, a variable column
\* is there exactly for the keys Included, its value is the message's and
\* sits at the column's position, and the columns come in loop order.
Parallel(call, Included(_, _)) ==
    LET keys == VariableKeys(call.handler)
        cols == VariableColumns(call.handler)
        var == (StaticCount(call.handler) + 1)..Len(call.columns)
    IN /\ Len(call.columns) = Len(call.values)
       /\ \A k \in 1..Len(keys) :
             (\E i \in var : call.columns[i] = cols[k])
                <=> Included(call.message, keys[k])
       /\ \A i \in var :
             \E k \in 1..Len(keys) :
                /\ call.columns[i] = cols[k]
                /\ call.values[i] = Get(call.message, keys[k])
       /\ \A i \in var, j \in var :
             i < j => Index(cols, call.columns[i]) < Index(cols, call.columns[j])

\* One of the projections with variable-cardinality columns has been built.
BuiltVariable ==
    /\ handlerCall.phase = "done"
    /\ handlerCall.handler \in { "callback", "handle_twilio_sms" }

OptionalFields(handler) ==
    IF handler = "handle_message_event"
    THEN { << "picture_url", "picture_url" >> }
    ELSE { << VariableKeys(handler)[k], VariableColumns(handler)[k] >> :
              k \in 1..Len(VariableKeys(handler)) }

\* C19 (as claimed): an optional field the message does not hold has no column
\* in the handler's column list (and so no null standing in for it among the
\* values).
C19_AbsentFieldOmitted ==
    handlerCall.phase = "done" =>
        \A f \in OptionalFields(handlerCall.handler) :
            ~IsPresent(handlerCall.message, f[1]) =>
                \A i \in 1..Len(handlerCall.columns) :
                    handlerCall.columns[i] # f[2]

\* C20: the statement build_insert_query returns has one placeholder per
\* value and none of the values in its text, the values come back unchanged,
\* any other value list of the same length gives the same statement, and
\* cursor.execute gets that statement with the values as its parameters.
C20_StatementIndependentOfValues ==
    insertCall.phase = "done" =>
        /\ Count(insertCall.query, "%s") = Len(insertCall.values)
        /\ \A i \in 1..Len(insertCall.query) : insertCall.query[i] \notin ValueSet
        /\ insertCall.bound = insertCall.values
        /\ \A other \in BoundedSeq(ValueSet, MaxVals) :
              Len(other) = Len(insertCall.values)
                 => build_insert_query("messages", insertCall.columns, other).query
                       = insertCall.query
        /\ Len(insertCall.executed) = 1
        /\ insertCall.executed[1].query = insertCall.query
        /\ insertCall.executed[1].values = insertCall.values

C20_Witness ==
    /\ insertCall.phase = "done"
    /\ insertCall.values = << "a", "b" >>
    /\ Len(insertCall.columns) = 2
    /\ insertCall.raised = "none"
    /\ Count(insertCall.query, "%s") = 2

\* C21: a message yields at most one committed row over its whole life,
\* whatever redeliveries, reconnections and republishes happen to it; in
\* particular a connection lost between conn.commit() and basic_ack does not
\* lead to a second row.
C21_AtMostOneRow ==
    \A id \in Ids : rows[id] <= 1

\* The dead-letter consumer hands the broker a republish of message id.
Republishes(id) == republished'[id] = republished[id] + 1

\* C22: a dead-letter republish leaves the message's routing key unchanged:
\* the copy published to the primary queue carries the routing key of the
\* delivery it was made from.
C22_RepublishKeepsKey ==
    [][ \A id \in Ids :
          Republishes(id) =>
             /\ dlq # << >>
             /\ Head(dlq).id = id
             /\ lastRetry'.publication.routing_key = Head(dlq).key ]_vars

====
